---- MODULE Spec2Model ----
(***************************************************************************)
(* Model of the 32 bit feed-forward network of pointlander/neural          *)
(* (neural32.go, util32.go and the portable vector primitives).            *)
(*                                                                         *)
(* Numbers: a float32 x is represented by the integer round(x * Unit);     *)
(* products and quotients round to the nearest representable value.        *)
(* Indices are 1-based: layer 1 is the input layer, connection layer l     *)
(* joins layer l to layer l+1, so Go's Weights[l][j][i] is                 *)
(* Weights[l+1][j+1][i+1] here.                                            *)
(***************************************************************************)
EXTENDS Integers, Sequences, FiniteSets, TLC

\* resolution of the float32 representation: 1.0 is Unit
Unit == 16

\* the float32 value 0/0
NaN == 0 - 1000000

\* ------------------------------------------------------------------ bounds
MaxSteps == 4
MaxIterations == 3
NumSeeds == 2
\* largest weight or momentum magnitude from which training is explored
MaxMagnitude == 256

\* ------------------------------------------------------- input enumerations
LayerChoices == { <<1, 1>>, <<1, 2>>, <<1, 1, 1>>, <<1, 1, 1, 1>> }
Initializers == { "Basic", "FanIn", "FanInFanOut" }
Probabilities == { Unit \div 4, Unit \div 2 }
InputChoices == { <<Unit \div 2>>, <<0, Unit \div 2>>, <<Unit \div 2, Unit \div 2, 0>> }
TargetChoices == { <<Unit>>, <<0, Unit>>, <<Unit, 0, Unit>> }
RateChoices == { <<Unit, 0>>, <<Unit \div 2, Unit \div 2>> }
Sources == { "single", "pair", "vary" }

\* --------------------------------------------------------- float32 algebra
Round(n, d) == (2 * n + d) \div (2 * d)
Mul(a, b) == Round(a * b, Unit)
Div(a, b) ==
    IF b = 0 THEN NaN
    ELSE IF b > 0 THEN Round(a * Unit, b) ELSE Round((0 - a) * Unit, 0 - b)
FromInt(n) == n * Unit
Sqrt(x) == CHOOSE r \in 0..(x + Unit) :
               /\ (2 * r - 1) * (2 * r - 1) <= 4 * x * Unit
               /\ 4 * x * Unit < (2 * r + 1) * (2 * r + 1)

RECURSIVE SumSeq(_)
SumSeq(s) == IF s = <<>> THEN 0 ELSE s[1] + SumSeq(Tail(s))

\* ------------------------------------------------------------- util32.go
\* a slice value: the elements of f, which has domain 1..n, stored in order
Slice(f) == f \o <<>>
vector32(I, fill) == Slice([i \in 1..I |-> fill])
matrix32(I, J) == Slice([i \in 1..I |-> vector32(J, 0)])

\* sigmoid32 at the model's resolution: SigmoidSteps[k] is the least x with
\* round(Unit / (1 + exp(-x / Unit))) >= k
SigmoidSteps == << -54, -36, -26, -20, -15, -10, -6, -2, 3, 7, 11, 16, 21, 27, 37, 55 >>
sigmoid32(x) == Cardinality({ k \in 1..Len(SigmoidSteps) : x >= SigmoidSteps[k] })
dsigmoid32(y) == Mul(y, Unit - y)
identity(x) == x
one(x) == Unit

\* Function32 values are named; Apply calls one
Apply(f, x) ==
    CASE f = "sigmoid32" -> sigmoid32(x)
      [] f = "dsigmoid32" -> dsigmoid32(x)
      [] f = "identity" -> identity(x)
      [] f = "one" -> one(x)

\* math/rand: a seeded generator; Float32 advances it and yields [0, 1)
RandNext(s) == (5 * s + 3) % Unit
RECURSIVE RandAt(_, _)
RandAt(s, k) == IF k = 0 THEN s ELSE RandAt(RandNext(s), k - 1)
random32(a, b, r) == Mul(b - a, r) + a

\* -------------------------------------------------- vector primitives
dot32(X, Y) == SumSeq(Slice([i \in 1..Len(X) |-> Mul(X[i], Y[i])]))
scal32(alpha, X) == Slice([i \in 1..Len(X) |-> Mul(alpha, X[i])])
axpy32(alpha, X, Y) == Slice([i \in 1..Len(Y) |-> Mul(alpha, X[i]) + Y[i]])

\* ------------------------------------------------------------------ state
VARIABLES
    Layers,       \* Neural32.Layers, widths with the bias unit added
    Weights,      \* Neural32.Weights
    Changes,      \* Neural32.Changes
    Functions,    \* Neural32.Functions
    Activations,  \* Context32.Activations of the current context, <<>> if none
    rng,          \* state of the random source
    status,       \* "config", "ready", "train", "done" or "panic"
    steps,        \* number of context calls made by the caller
    contexts,     \* number of NewContext calls
    call,         \* the last call: [op, vec, lRate, mFactor], vec its vector
                  \* argument (or <<probability>> for EnableDropout)
    pre,          \* Weights and Changes when the last call began
    deltas,       \* local deltas of the last BackPropagate
    ret,          \* value returned by the last BackPropagate
    inputsFit,    \* every SetInput so far had at most width(0)-1 elements
    train         \* locals of Train

vars == << Layers, Weights, Changes, Functions, Activations, rng, status,
           steps, contexts, call, pre, deltas, ret, inputsFit, train >>

Depth == Len(Layers)

\* ------------------------------------------------------------ construction
WeightInitializer32Basic(in, out, r) == random32(0 - Unit, Unit, r)
WeightInitializer32FanIn(in, out, r) ==
    Div(random32(0 - Unit, Unit, r), Sqrt(FromInt(in)))
WeightInitializer32FanInFanOut(in, out, r) ==
    Mul(random32(0 - Unit, Unit, r), 4 * Sqrt(Div(FromInt(6), FromInt(in + out))))
Initialize(init, in, out, r) ==
    CASE init = "Basic" -> WeightInitializer32Basic(in, out, r)
      [] init = "FanIn" -> WeightInitializer32FanIn(in, out, r)
      [] init = "FanInFanOut" -> WeightInitializer32FanInFanOut(in, out, r)

\* widths after Init reserved a bias unit on every layer but the last
BiasedLayers(layers) ==
    Slice([l \in 1..Len(layers) |-> IF l < Len(layers) THEN layers[l] + 1 ELSE layers[l]])

\* number of initializer calls made before connection layer l is filled
RECURSIVE DrawsBefore(_, _)
DrawsBefore(w, l) == IF l = 1 THEN 0 ELSE DrawsBefore(w, l - 1) + w[l - 1] * w[l]

\* weights[j][i] is filled in the order i outer, j inner
InitWeights(w, init, seed) ==
    Slice([l \in 1..(Len(w) - 1) |->
        Slice([j \in 1..w[l + 1] |->
            Slice([i \in 1..w[l] |->
                Initialize(init, w[l], w[l + 1],
                           RandAt(seed, DrawsBefore(w, l) + (i - 1) * w[l + 1] + j))])])])

\* bug variant: the momentum matrices allocated destination-major
InitChangesDestinationMajor(w) ==
    Slice([l \in 1..(Len(w) - 1) |-> matrix32(w[l + 1], w[l])])

InitChanges(w) == Slice([l \in 1..(Len(w) - 1) |-> matrix32(w[l], w[l + 1])])

InitFunctions(w) ==
    Slice([l \in 1..(Len(w) - 1) |->
        [F |-> "sigmoid32", T |-> [kind |-> "identity", p |-> 0], DF |-> "dsigmoid32"]])

NoCall == [op |-> "Init", vec |-> <<>>, lRate |-> 0, mFactor |-> 0]
NoTrain == [source |-> "none", iterations |-> 0, lRate |-> 0, mFactor |-> 0,
            pc |-> "idle", i |-> 0, k |-> 0, patterns |-> <<>>, e |-> 0, n |-> 0,
            errors |-> <<>>, calls |-> <<>>, log |-> <<>>, seen |-> <<>>]

Init ==
    \E layers \in LayerChoices, init \in Initializers, seed \in 0..(NumSeeds - 1) :
        LET w == BiasedLayers(layers) IN
        /\ Layers = w
        /\ Weights = InitWeights(w, init, seed)
        /\ Changes = InitChanges(w)
        /\ Functions = InitFunctions(w)
        /\ rng = RandAt(seed, DrawsBefore(w, Len(w)))
        /\ Activations = <<>>
        /\ status = "config"
        /\ steps = 0
        /\ contexts = 0
        /\ call = NoCall
        /\ pre = [W |-> InitWeights(w, init, seed), C |-> InitChanges(w)]
        /\ deltas = <<>>
        /\ ret = 0
        /\ inputsFit = TRUE
        /\ train = NoTrain

\* ---------------------------------------------------------- configuration
EnableRegression ==
    /\ status = "config"
    /\ Functions' = [Functions EXCEPT ![Depth - 1].F = "identity",
                                      ![Depth - 1].DF = "one"]
    /\ call' = [NoCall EXCEPT !.op = "EnableRegression"]
    /\ UNCHANGED << Layers, Weights, Changes, Activations, rng, status, steps,
                    contexts, pre, deltas, ret, inputsFit, train >>

\* connection layers whose transform EnableDropout replaces
DropoutLayers == 1..(Depth - 2)

EnableDropout(probability) ==
    /\ status = "config"
    /\ Functions' = Slice([l \in 1..(Depth - 1) |->
                        IF l \in DropoutLayers
                        THEN [Functions[l] EXCEPT !.T = [kind |-> "dropout", p |-> probability]]
                        ELSE Functions[l]])
    /\ call' = [NoCall EXCEPT !.op = "EnableDropout", !.vec = <<probability>>]
    /\ UNCHANGED << Layers, Weights, Changes, Activations, rng, status, steps,
                    contexts, pre, deltas, ret, inputsFit, train >>

\* ---------------------------------------------------------------- context
ContextActivations == Slice([l \in 1..Depth |-> vector32(Layers[l], Unit)])

NewContext ==
    /\ status = "config"
    /\ Activations' = ContextActivations
    /\ status' = "ready"
    /\ contexts' = contexts + 1
    /\ call' = [NoCall EXCEPT !.op = "NewContext"]
    /\ UNCHANGED << Layers, Weights, Changes, Functions, rng, steps, pre,
                    deltas, ret, inputsFit, train >>

Min(a, b) == IF a < b THEN a ELSE b

\* copy(dst, src): the first min(len) elements of dst are overwritten
copy(dst, src) ==
    Slice([i \in 1..Len(dst) |-> IF i <= Min(Len(dst), Len(src)) THEN src[i] ELSE dst[i]])

SetInputActivations(A, input) == [A EXCEPT ![1] = copy(A[1], input)]

SetInput(input) ==
    /\ status = "ready"
    /\ steps < MaxSteps
    /\ steps' = steps + 1
    /\ Activations' = SetInputActivations(Activations, input)
    /\ inputsFit' = (inputsFit /\ Len(input) <= Layers[1] - 1)
    /\ call' = [NoCall EXCEPT !.op = "SetInput", !.vec = input]
    /\ pre' = [W |-> Weights, C |-> Changes]
    /\ UNCHANGED << Layers, Weights, Changes, Functions, rng, status, contexts,
                    deltas, ret, train >>

\* ---------------------------------------------------------- forward pass
\* bug variant: the bias row of a hidden layer is computed like the others
InferRowsAll(l) == 1..Len(Weights[l])

\* destination rows written for connection layer l: all but the bias row on
\* every layer but the last
InferRows(l) ==
    IF l < Depth - 1 THEN 1..(Len(Weights[l]) - 1) ELSE 1..Len(Weights[l])

\* the transform T: the identity, or the dropout closure of EnableDropout,
\* which draws one random number per call
ApplyT(T, x, r) ==
    IF T.kind = "dropout"
    THEN LET draw == RandNext(r) IN
         [x |-> IF draw > Unit - T.p THEN 0 ELSE Mul(x, Div(Unit, Unit - T.p)),
          r |-> draw]
    ELSE [x |-> identity(x), r |-> r]

\* rows j..last of connection layer l, in order; st = [a: activations, r: rng]
RECURSIVE ForwardRows(_, _, _, _, _)
ForwardRows(l, j, last, st, withT) ==
    IF j > last THEN st
    ELSE LET sum == dot32(st.a[l], Weights[l][j])
             y == Apply(Functions[l].F, sum)
             t == IF withT THEN ApplyT(Functions[l].T, y, st.r)
                           ELSE [x |-> y, r |-> st.r]
         IN ForwardRows(l, j + 1, last,
                        [a |-> [st.a EXCEPT ![l + 1][j] = t.x], r |-> t.r], withT)

RowCount(S) == Cardinality(S)

RECURSIVE ForwardLayers(_, _, _)
ForwardLayers(l, st, withT) ==
    IF l > Depth - 1 THEN st
    ELSE ForwardLayers(l + 1, ForwardRows(l, 1, RowCount(InferRows(l)), st, withT), withT)

\* bug variant: the inference-only pass applies the transform
InferResultTransformed(A, r) == ForwardLayers(1, [a |-> A, r |-> r], TRUE)

InferResult(A, r) == ForwardLayers(1, [a |-> A, r |-> r], FALSE)

InferWithTResult(A, r) == ForwardLayers(1, [a |-> A, r |-> r], TRUE)

Infer ==
    /\ status = "ready"
    /\ steps < MaxSteps
    /\ steps' = steps + 1
    /\ \E fw \in { InferResult(Activations, rng) } :
        /\ Activations' = fw.a
        /\ rng' = fw.r
    /\ call' = [NoCall EXCEPT !.op = "Infer"]
    /\ pre' = [W |-> Weights, C |-> Changes]
    /\ UNCHANGED << Layers, Weights, Changes, Functions, status, contexts,
                    deltas, ret, inputsFit, train >>

InferWithT ==
    /\ status = "ready"
    /\ steps < MaxSteps
    /\ steps' = steps + 1
    /\ \E fw \in { InferWithTResult(Activations, rng) } :
        /\ Activations' = fw.a
        /\ rng' = fw.r
    /\ call' = [NoCall EXCEPT !.op = "InferWithT"]
    /\ pre' = [W |-> Weights, C |-> Changes]
    /\ UNCHANGED << Layers, Weights, Changes, Functions, status, contexts,
                    deltas, ret, inputsFit, train >>

\* ------------------------------------------------------- backpropagation
\* deltas of the output layer; targets[i] is read for every output neuron, so
\* a short target vector stops the loop at its end
OutputDeltas(A, targets) ==
    Slice([i \in 1..Layers[Depth] |->
        IF i <= Len(targets)
        THEN Mul(Apply(Functions[Depth - 1].DF, A[Depth][i]), targets[i] - A[Depth][i])
        ELSE 0])

\* deltas of connection layer l: the output deltas for the last layer, else
\* computed from the deltas of layer l+1 and the weights W
RECURSIVE LayerDeltas(_, _, _, _)
LayerDeltas(l, A, targets, W) ==
    IF l = Depth - 1 THEN OutputDeltas(A, targets)
    ELSE LET next == LayerDeltas(l + 1, A, targets, W) IN
         Slice([i \in 1..Layers[l + 1] |->
             Mul(Apply(Functions[l].DF, A[l + 1][i]),
                 SumSeq(Slice([j \in 1..Layers[l + 2] |->
                                  Mul(next[j], W[l + 1][j][i])])))])

\* the deltas left behind when the output loop panics
PartialDeltas(A, targets) ==
    Slice([l \in 1..(Depth - 1) |->
        IF l = Depth - 1 THEN OutputDeltas(A, targets) ELSE vector32(Layers[l + 1], 0)])

\* change for source neuron i of connection layer l
Change(d, A, l, i) == scal32(A[l][i], copy(vector32(Layers[l + 1], 0), d[l]))

\* Changes[l][i] after scal32(mFactor, .) and axpy32(lRate, change, .)
Blend(d, A, l, i, lRate, mFactor) ==
    axpy32(lRate, Change(d, A, l, i), scal32(mFactor, Changes[l][i]))

UpdatedWeights(d, A, lRate, mFactor) ==
    Slice([l \in 1..(Depth - 1) |->
        Slice([j \in 1..Layers[l + 1] |->
            Slice([i \in 1..Layers[l] |->
                Weights[l][j][i] + Blend(d, A, l, i, lRate, mFactor)[j]])])])

\* bug variant: the weights are updated before the hidden deltas are computed
BackPropagateDeltasAfterUpdate(A, targets, lRate, mFactor) ==
    LET d0 == Slice([l \in 1..(Depth - 1) |-> LayerDeltas(l, A, targets, Weights)])
        W1 == UpdatedWeights(d0, A, lRate, mFactor)
    IN Slice([l \in 1..(Depth - 1) |-> LayerDeltas(l, A, targets, W1)])

\* the deltas the update loop uses
BackPropagateDeltas(A, targets, lRate, mFactor) ==
    Slice([l \in 1..(Depth - 1) |-> LayerDeltas(l, A, targets, Weights)])

\* bug variant: the final copy is missing, the blended value stays
StoredChangeBlended(d, A, l, i, lRate, mFactor) == Blend(d, A, l, i, lRate, mFactor)

\* what the final copy leaves in Changes[l][i]
StoredChange(d, A, l, i, lRate, mFactor) == copy(Blend(d, A, l, i, lRate, mFactor), Change(d, A, l, i))

UpdatedChanges(d, A, lRate, mFactor) ==
    Slice([l \in 1..(Depth - 1) |->
        Slice([i \in 1..Layers[l] |-> StoredChange(d, A, l, i, lRate, mFactor)])])

\* bug variant: the error loop runs over the output layer
ErrorLoopOverOutputs(targets) == Layers[Depth]

\* bound of the loop that sums the squared errors
ErrorLoopBound(targets) == Len(targets)

SquaredError(A, targets) ==
    SumSeq(Slice([i \in 1..ErrorLoopBound(targets) |->
                     Mul(targets[i] - A[Depth][i], targets[i] - A[Depth][i])]))

\* outcome of the call: an index out of range panics, before the update when
\* targets is short, after it when the error loop runs past the output layer
BackPropagateOutcome(A, targets, lRate, mFactor) ==
    IF Len(targets) < Layers[Depth]
    THEN [panic |-> TRUE, W |-> Weights, C |-> Changes,
          d |-> PartialDeltas(A, targets), e |-> 0]
    ELSE LET d == BackPropagateDeltas(A, targets, lRate, mFactor)
             updated == [W |-> UpdatedWeights(d, A, lRate, mFactor),
                         C |-> UpdatedChanges(d, A, lRate, mFactor), d |-> d]
         IN IF ErrorLoopBound(targets) > Layers[Depth]
            THEN [panic |-> TRUE, W |-> updated.W, C |-> updated.C, d |-> updated.d,
                  e |-> 0]
            ELSE [panic |-> FALSE, W |-> updated.W, C |-> updated.C, d |-> updated.d,
                  e |-> SquaredError(A, targets)]

\* every entry of the tensor t is within the explored magnitudes
WithinMagnitude(t) ==
    \A l \in 1..Len(t) : \A r \in 1..Len(t[l]) : \A c \in 1..Len(t[l][r]) :
        /\ t[l][r][c] <= MaxMagnitude
        /\ 0 - t[l][r][c] <= MaxMagnitude

BackPropagate(targets, lRate, mFactor) ==
    /\ status = "ready"
    /\ steps < MaxSteps
    /\ WithinMagnitude(Weights)
    /\ WithinMagnitude(Changes)
    /\ steps' = steps + 1
    /\ \E out \in { BackPropagateOutcome(Activations, targets, lRate, mFactor) } :
        /\ Weights' = out.W
        /\ Changes' = out.C
        /\ deltas' = out.d
        /\ ret' = out.e
        /\ status' = IF out.panic THEN "panic" ELSE "ready"
    /\ call' = [op |-> "BackPropagate", vec |-> targets, lRate |-> lRate,
                mFactor |-> mFactor]
    /\ pre' = [W |-> Weights, C |-> Changes]
    /\ UNCHANGED << Layers, Functions, Activations, rng, contexts, inputsFit, train >>

\* ------------------------------------------------------------------ Train
\* the data sources the caller passes: iteration index to pattern batch; a
\* pattern is <<input, target>>
SourceBatch(source, i) ==
    CASE source = "single" ->
            << << <<0>>, <<Unit>> >>, << <<Unit>>, <<0>> >> >>
      [] source = "pair" ->
            IF i % 2 = 0
            THEN << << <<Unit>>, <<0, Unit>> >> >>
            ELSE << << <<0>>, <<Unit, 0>> >>, << <<Unit>>, <<0, Unit>> >> >>
      [] source = "vary" ->
            IF i = 0 THEN <<>> ELSE << << <<Unit>>, <<Unit>> >> >>

\* bug variant: n counts patterns
TargetCountPerPattern(p) == 1

\* n += len(p[1])
TargetCount(p) == Len(p[2])

TrainBegin(source, iterations, lRate, mFactor) ==
    /\ status = "config"
    /\ status' = "train"
    /\ Activations' = ContextActivations
    /\ contexts' = contexts + 1
    /\ train' = [NoTrain EXCEPT !.source = source, !.iterations = iterations,
                                !.lRate = lRate, !.mFactor = mFactor,
                                !.pc = "loop", !.errors = vector32(iterations, 0)]
    /\ call' = [op |-> "Train", vec |-> <<>>, lRate |-> lRate, mFactor |-> mFactor]
    /\ UNCHANGED << Layers, Weights, Changes, Functions, rng, steps, pre,
                    deltas, ret, inputsFit >>

\* patterns := source(i)
TrainFetch ==
    /\ status = "train"
    /\ train.pc = "loop"
    /\ train.i < train.iterations
    /\ train' = [train EXCEPT !.pc = "batch", !.k = 0, !.e = 0, !.n = 0,
                              !.patterns = SourceBatch(train.source, train.i),
                              !.calls = Append(train.calls, train.i),
                              !.log = Append(train.log, <<>>),
                              !.seen = Append(train.seen, <<>>)]
    /\ UNCHANGED << Layers, Weights, Changes, Functions, Activations, rng, status,
                    steps, contexts, call, pre, deltas, ret, inputsFit >>

\* one pass of the loop over the batch: SetInput, InferWithT, BackPropagate
TrainPattern ==
    /\ status = "train"
    /\ train.pc = "batch"
    /\ train.k < Len(train.patterns)
    /\ WithinMagnitude(Weights)
    /\ WithinMagnitude(Changes)
    /\ \E p \in { train.patterns[train.k + 1] } :
       \E fw \in { InferWithTResult(SetInputActivations(Activations, p[1]), rng) } :
       \E out \in { BackPropagateOutcome(fw.a, p[2], train.lRate, train.mFactor) } :
        /\ Activations' = fw.a
        /\ rng' = fw.r
        /\ inputsFit' = (inputsFit /\ Len(p[1]) <= Layers[1] - 1)
        /\ Weights' = out.W
        /\ Changes' = out.C
        /\ deltas' = out.d
        /\ ret' = out.e
        /\ call' = [op |-> "BackPropagate", vec |-> p[2], lRate |-> train.lRate,
                    mFactor |-> train.mFactor]
        /\ status' = IF out.panic THEN "panic" ELSE "train"
        /\ train' = IF out.panic THEN train
                    ELSE [train EXCEPT !.k = train.k + 1,
                                       !.e = train.e + out.e,
                                       !.n = train.n + TargetCount(p),
                                       !.log[train.i + 1] = Append(@, out.e),
                                       !.seen[train.i + 1] = Append(@, p)]
    /\ pre' = [W |-> Weights, C |-> Changes]
    /\ UNCHANGED << Layers, Functions, steps, contexts >>

\* errors[i] = e / float32(n)
TrainRecord ==
    /\ status = "train"
    /\ train.pc = "batch"
    /\ train.k = Len(train.patterns)
    /\ train' = [train EXCEPT !.pc = "loop", !.i = train.i + 1,
                              !.errors[train.i + 1] = Div(train.e, FromInt(train.n))]
    /\ UNCHANGED << Layers, Weights, Changes, Functions, Activations, rng, status,
                    steps, contexts, call, pre, deltas, ret, inputsFit >>

TrainReturn ==
    /\ status = "train"
    /\ train.pc = "loop"
    /\ train.i = train.iterations
    /\ status' = "done"
    /\ train' = [train EXCEPT !.pc = "returned"]
    /\ UNCHANGED << Layers, Weights, Changes, Functions, Activations, rng,
                    steps, contexts, call, pre, deltas, ret, inputsFit >>

Next ==
    \/ EnableRegression
    \/ \E p \in Probabilities : EnableDropout(p)
    \/ NewContext
    \/ \E input \in InputChoices : SetInput(input)
    \/ Infer
    \/ InferWithT
    \/ \E targets \in TargetChoices, rates \in RateChoices :
           BackPropagate(targets, rates[1], rates[2])
    \/ \E source \in Sources, iterations \in 0..MaxIterations, rates \in RateChoices :
           TrainBegin(source, iterations, rates[1], rates[2])
    \/ TrainFetch
    \/ TrainPattern
    \/ TrainRecord
    \/ TrainReturn

Spec == Init /\ [][Next]_vars
\* ================================================================= claims
Connections == 1..(Depth - 1)

\* the last call was BackPropagate (directly or from Train)
AfterBackPropagate == call.op = "BackPropagate"

\* ... and it returned
BackPropagateReturned == AfterBackPropagate /\ status # "panic"

\* change[j] = delta[l][j] * activation[l][i], from the recorded deltas
RawChange(l, i, j) == Mul(deltas[l][j], Activations[l][i])

\* accumulated_change[j] = mFactor * previous_change[l][i][j] + lRate * change[j]
Accumulated(l, i, j) ==
    Mul(call.mFactor, pre.C[l][i][j]) + Mul(call.lRate, RawChange(l, i, j))

WeightsMoved ==
    \A l \in Connections : \A i \in 1..Layers[l] : \A j \in 1..Layers[l + 1] :
        Weights[l][j][i] = pre.W[l][j][i] + Accumulated(l, i, j)

\* C1 (as claimed): after BackPropagate every weight[l][j][i] has grown by
\* accumulated_change[j] and the momentum entry previous_change[l][i] equals
\* accumulated_change, the blended value that was applied.
C1_MomentumHoldsAppliedDelta ==
    BackPropagateReturned =>
        /\ WeightsMoved
        /\ \A l \in Connections : \A i \in 1..Layers[l] : \A j \in 1..Layers[l + 1] :
               Changes[l][i][j] = Accumulated(l, i, j)

\* C1 (amended): after BackPropagate every weight[l][j][i] has grown by
\* accumulated_change[j] = mFactor * previous_change[l][i][j] + lRate * change[j],
\* and the momentum entry previous_change[l][i] equals change, the unblended
\* delta[l] * activation[l][i].
C1_MomentumHoldsRawChange ==
    BackPropagateReturned =>
        /\ WeightsMoved
        /\ \A l \in Connections : \A i \in 1..Layers[l] : \A j \in 1..Layers[l + 1] :
               Changes[l][i][j] = RawChange(l, i, j)

\* a returned BackPropagate whose blended value differs from the raw change
\* because a non-zero previous change was scaled by a non-zero momentum factor
C1_Witness ==
    /\ BackPropagateReturned
    /\ call.mFactor # 0
    /\ \E l \in Connections : \E i \in 1..Layers[l] : \E j \in 1..Layers[l + 1] :
           /\ pre.C[l][i][j] # 0
           /\ Accumulated(l, i, j) # RawChange(l, i, j)
           /\ Weights[l][j][i] # pre.W[l][j][i]

\* C2 (as claimed): SetInput with more elements than width(0)-1 aborts.
C2_OversizedInputAborts ==
    (call.op = "SetInput" /\ Len(call.vec) > Layers[1] - 1) => status = "panic"

\* C3: while every SetInput vector had at most width(0)-1 elements, the last
\* slot of the activation vector of every layer but the output layer is 1.0
\* in every state of a context, whatever SetInput, Infer, InferWithT and
\* BackPropagate calls were made, with or without dropout.
C3_BiasInvariant ==
    (Activations # <<>> /\ inputsFit) =>
        \A l \in 1..(Depth - 1) : Activations[l][Layers[l]] = Unit

\* a context of a network with a hidden layer, after an input was set, the
\* training pass dropped the hidden activation and BackPropagate ran
C3_Witness ==
    /\ inputsFit
    /\ AfterBackPropagate
    /\ Depth >= 3
    /\ Functions[1].T.kind = "dropout"
    /\ Activations[1][1] # Unit
    /\ Activations[2][1] = 0

\* C4: a BackPropagate call whose target vector is shorter or longer than the
\* output layer is wide aborts; it returns no value.
C4_TargetMismatchAborts ==
    (AfterBackPropagate /\ Len(call.vec) # Layers[Depth]) => status = "panic"

\* an aborted call whose target vector was longer than the output layer
C4_Witness ==
    /\ AfterBackPropagate
    /\ Len(call.vec) > Layers[Depth]
    /\ status = "panic"

\* C5: when Train returns, source was called once for each of 0..iterations-1
\* in order, one context was created, the patterns of each batch were trained
\* on in batch order, and entry i of the result is the sum of the values
\* BackPropagate returned for batch i divided by k*m, k the number of patterns
\* and m the output width.
C5_TrainResult ==
    status = "done" =>
        /\ Len(train.errors) = train.iterations
        /\ train.calls = Slice([i \in 1..train.iterations |-> i - 1])
        /\ contexts = 1
        /\ \A i \in 1..train.iterations :
               LET batch == SourceBatch(train.source, i - 1) IN
               /\ train.seen[i] = batch
               /\ Len(train.log[i]) = Len(batch)
               /\ train.errors[i] =
                      Div(SumSeq(train.log[i]), FromInt(Len(batch) * Layers[Depth]))

\* Train returned after two iterations over batches of two-element targets
\* with a non-zero error in the two-pattern batch
C5_Witness ==
    /\ status = "done"
    /\ train.iterations = 2
    /\ Layers[Depth] = 2
    /\ Len(train.seen[2]) = 2
    /\ train.errors[2] # 0
    /\ train.errors[1] # train.errors[2]

HasShape(m, rows, cols) ==
    /\ Len(m) = rows
    /\ \A r \in 1..rows : Len(m[r]) = cols

AllZero(m) == \A r \in 1..Len(m) : \A c \in 1..Len(m[r]) : m[r][c] = 0

\* C6 (as claimed): in every state the momentum entry l has the shape of the
\* weight entry l, [width(l+1)][width(l)], and is all zero after Construct.
C6_MomentumShapedAsWeights ==
    /\ Len(Weights) = Depth - 1
    /\ Len(Changes) = Depth - 1
    /\ \A l \in Connections :
           /\ HasShape(Weights[l], Layers[l + 1], Layers[l])
           /\ HasShape(Changes[l], Layers[l + 1], Layers[l])
           /\ (call.op = "Init" => AllZero(Changes[l]))

\* C6 (amended): in every state the weight entry l has the destination-major
\* shape [width(l+1)][width(l)] and the momentum entry l the source-major
\* shape [width(l)][width(l+1)], its transpose; the momentum tensor is all
\* zero until the first BackPropagate and neither tensor is ever resized.
C6_MomentumTransposed ==
    /\ Len(Weights) = Depth - 1
    /\ Len(Changes) = Depth - 1
    /\ \A l \in Connections :
           /\ HasShape(Weights[l], Layers[l + 1], Layers[l])
           /\ HasShape(Changes[l], Layers[l], Layers[l + 1])
           /\ (status = "config" => AllZero(Changes[l]))

\* a network whose first two layers differ in width, after a BackPropagate
\* that changed its weights and its momentum tensor
C6_Witness ==
    /\ BackPropagateReturned
    /\ Layers[1] # Layers[2]
    /\ Weights[1] # pre.W[1]
    /\ ~AllZero(Changes[1])

\* non-bias destination rows of connection layer l
Destinations(l) == 1..(IF l < Depth - 1 THEN Layers[l + 1] - 1 ELSE Layers[l + 1])

\* F_l(dot(activations[l], weights[l][j])) from the state
Squashed(l, j) ==
    Apply(Functions[l].F,
          SumSeq(Slice([i \in 1..Layers[l] |-> Mul(Activations[l][i], Weights[l][j][i])])))

\* the values T_l can give x
Transformed(l, x) ==
    IF Functions[l].T.kind = "dropout"
    THEN { 0, Mul(x, Div(Unit, Unit - Functions[l].T.p)) }
    ELSE { x }

\* C7: the transform of the last connection layer is always the identity and
\* EnableDropout(p) makes the transform of every other layer the dropout
\* transform; after Infer every activation is F_l(dot) whatever the
\* transforms are; after InferWithT every activation is T_l(F_l(dot)).
C7_DropoutOnlyInTraining ==
    /\ Functions[Depth - 1].T.kind = "identity"
    /\ call.op = "EnableDropout" =>
           \A l \in 1..(Depth - 2) : Functions[l].T = [kind |-> "dropout", p |-> call.vec[1]]
    /\ call.op = "Infer" =>
           \A l \in Connections : \A j \in Destinations(l) :
               Activations[l + 1][j] = Squashed(l, j)
    /\ call.op = "InferWithT" =>
           \A l \in Connections : \A j \in Destinations(l) :
               Activations[l + 1][j] \in Transformed(l, Squashed(l, j))

\* Infer ran on a network with dropout enabled on its hidden layer, after
\* an input was set
C7_Witness ==
    /\ call.op = "Infer"
    /\ Depth >= 3
    /\ Functions[1].T.kind = "dropout"
    /\ Activations[1][1] # Unit
    /\ Activations[2][1] # 0

\* delta[l][i] recomputed from the downstream deltas and the weights W
HiddenDelta(l, i, W) ==
    Mul(Apply(Functions[l].DF, Activations[l + 1][i]),
        SumSeq(Slice([j \in 1..Layers[l + 2] |-> Mul(deltas[l + 1][j], W[l + 1][j][i])])))

\* C9: in a BackPropagate call that got to the update, the output deltas are
\* DF(activation) * (target - activation) and every hidden delta[l][i] is
\* DF_l(activation[l+1][i]) * sum_j delta[l+1][j] * weight[l+1][j][i] over the
\* weights the call began with.
C9_DeltasFromInitialWeights ==
    (AfterBackPropagate /\ Len(call.vec) >= Layers[Depth]) =>
        /\ \A i \in 1..Layers[Depth] :
               deltas[Depth - 1][i] =
                   Mul(Apply(Functions[Depth - 1].DF, Activations[Depth][i]),
                       call.vec[i] - Activations[Depth][i])
        /\ \A l \in 1..(Depth - 2) : \A i \in 1..Layers[l + 1] :
               deltas[l][i] = HiddenDelta(l, i, pre.W)

\* a call on a network with a hidden layer where the updated downstream
\* weights would have given another hidden delta
C9_Witness ==
    /\ BackPropagateReturned
    /\ Depth >= 3
    /\ \E l \in 1..(Depth - 2) : \E i \in 1..Layers[l + 1] :
           /\ deltas[l][i] # 0
           /\ HiddenDelta(l, i, Weights) # deltas[l][i]

\* C10 (as claimed): when BackPropagate aborts, the weight and momentum
\* tensors are what they were before the call.
C10_AbortLeavesTensors ==
    (AfterBackPropagate /\ status = "panic") =>
        /\ Weights = pre.W
        /\ Changes = pre.C
====
